---- MODULE Spec2Model ----
(***************************************************************************)
(* The party server of simple-party/backend/server.js: the in-memory       *)
(* per-party state (currentTracks, trackHistory, partyMembers), the votes  *)
(* table, the request handlers and the asynchronous track selection        *)
(* pickNextTrack with its completion timer.                                *)
(*                                                                         *)
(* Node runs every handler, timer callback and promise continuation to     *)
(* its next await without interruption, so each action below is one such   *)
(* run-to-completion step.                                                 *)
(***************************************************************************)
EXTENDS Integers, Sequences, FiniteSets, Bags

VARIABLES
    tracks,         \* the catalog loaded at startup (server.js:8)
    currentTracks,  \* Map partyCode -> track with startedAt (server.js:11)
    arrays,         \* per party: the live JS arrays of played track ids, each with
                    \* whether trackHistory holds it (server.js:12) and with the
                    \* running calls of pickNextTrack whose recentTracks is it
    partyMembers,   \* Map partyCode -> Map sessionId -> last seen (server.js:13)
    votes,          \* rows of the votes table
    timers,         \* per party: the armed completion timers (a bag)
    writes,         \* vote upserts sent to the store and not yet answered
    now,            \* Date.now()
    crashed,        \* the process died of an unhandled rejection
    lastResp,       \* the last HTTP response sent
    firstBody       \* per party: the first body answered to GET currentTrack since its last timer fire

vars == <<tracks, currentTracks, arrays, partyMembers, votes, timers, writes,
          now, crashed, lastResp, firstBody>>

----------------------------------------------------------------------------
(* Bounds of the model *)

\* concurrently existing selection chains (running call or armed timer) per party
MaxChains == 2
\* largest clock value
MaxTime == 1
\* vote upserts in flight at the same time
MaxWrites == 1

Parties == {"p1", "p2"}
Sessions == {"s1"}

----------------------------------------------------------------------------
(* Values *)

Track(id, artist) == [track_id |-> id, artist |-> artist, duration |-> 1000]

\* the catalog of the scenario of the specification, section 8
Catalog3 == << Track(1001, "X"), Track(2001, "Y"), Track(2002, "X") >>
\* a catalog of more than five tracks
Catalog6 == Catalog3 \o << Track(3001, "Z"), Track(1002, "Y"), Track(7001, "Z") >>

\* `let bestTrack = null` (server.js:231)
NullTrack == Track(0, "null")
\* availableTracks[randomIndex] of an empty array (server.js:275)
UndefinedTrack == Track(-1, "undefined")

\* `let bestScore = -999999` (server.js:232)
InitialBestScore == -999999
\* `recentTracks.length > 5`, `slice(-5)` (server.js:282-283)
HistoryLimit == 5

RECURSIVE SumSeq(_)
SumSeq(s) == IF s = <<>> THEN 0 ELSE Head(s) + SumSeq(Tail(s))

RECURSIVE SumOver(_, _)
SumOver(S, f) ==
    IF S = {} THEN 0
    ELSE LET x == CHOOSE y \in S : TRUE IN f[x] + SumOver(S \ {x}, f)

Elems(s) == {s[i] : i \in 1..Len(s)}

----------------------------------------------------------------------------
(* Helper functions of server.js *)

getCategory(trackId) ==
    IF trackId >= 1000 /\ trackId < 2000 THEN "pop"
    ELSE IF trackId >= 2000 /\ trackId < 3000 THEN "chill"
    ELSE IF trackId >= 3000 /\ trackId < 4000 THEN "energy"
    ELSE IF trackId >= 4000 /\ trackId < 5000 THEN "party"
    ELSE IF trackId >= 5000 /\ trackId < 6000 THEN "running"
    ELSE IF trackId >= 6000 /\ trackId < 7000 THEN "relaxing"
    ELSE "other"

\* sum(case when vote_type = 'up' then 1 else -1 end)
VoteValue(row) == IF row.vote_type = "up" THEN 1 ELSE -1

\* select track_id, sum(...) as score from votes where party_code = $1 group by track_id
VoteQuery(table, partyCode) ==
    LET mine == {r \in table : r.party_code = partyCode}
        ids  == {r.track_id : r \in mine}
    IN  { [track_id |-> id,
           score |-> SumOver({r \in mine : r.track_id = id},
                             [r \in mine |-> VoteValue(r)])] : id \in ids }

\* ... having sum(...) > 0
LikedQuery(table, partyCode) ==
    {row \in VoteQuery(table, partyCode) : row.score > 0}

\* tracks.filter(t => likedTrackIds.includes(t.track_id))
LikedTracks(catalog, likedRows) ==
    LET likedTrackIds == {r.track_id : r \in likedRows}
    IN  SelectSeq(catalog, LAMBDA t : t.track_id \in likedTrackIds)

\* voteResult.rows.find(...), parseInt(votedTrack.score), 0 when not found
VoteScore(track, voteRows) ==
    IF \E v \in voteRows : v.track_id = track.track_id
    THEN (CHOOSE v \in voteRows : v.track_id = track.track_id).score
    ELSE 0

\* a loop that skips the liked track that is the candidate itself
SimilarityBonusOthers(track, likedTracks) ==
    SumSeq([k \in 1..Len(likedTracks) |->
        IF likedTracks[k].track_id = track.track_id THEN 0
        ELSE (IF getCategory(track.track_id) = getCategory(likedTracks[k].track_id)
              THEN 2 ELSE 0)
             + (IF track.artist = likedTracks[k].artist THEN 3 ELSE 0)])

\* a loop whose artist test is an `else if` of the category test
SimilarityBonusElseIf(track, likedTracks) ==
    SumSeq([k \in 1..Len(likedTracks) |->
        IF getCategory(track.track_id) = getCategory(likedTracks[k].track_id)
        THEN 2
        ELSE IF track.artist = likedTracks[k].artist THEN 3 ELSE 0])

\* the inner loop over likedTracks
SimilarityBonus(track, likedTracks) ==
    SumSeq([k \in 1..Len(likedTracks) |->
        (IF getCategory(track.track_id) = getCategory(likedTracks[k].track_id)
         THEN 2 ELSE 0)
        + (IF track.artist = likedTracks[k].artist THEN 3 ELSE 0)])

TotalScore(track, voteRows, likedTracks) ==
    VoteScore(track, voteRows) + SimilarityBonus(track, likedTracks)

\* a scoring loop that replaces the incumbent without recording its score
RECURSIVE ScoreLoopKeepsScore(_, _, _, _, _, _, _)
ScoreLoopKeepsScore(catalog, i, recent, voteRows, likedTracks, bestTrack, bestScore) ==
    IF i > Len(catalog) THEN {[bestTrack |-> bestTrack, bestScore |-> bestScore]}
    ELSE LET track == catalog[i]
             totalScore == TotalScore(track, voteRows, likedTracks)
             keep == ScoreLoopKeepsScore(catalog, i + 1, recent, voteRows, likedTracks,
                                         bestTrack, bestScore)
             take == ScoreLoopKeepsScore(catalog, i + 1, recent, voteRows, likedTracks,
                                         track, bestScore)
         IN  IF track.track_id \in Elems(recent) THEN keep
             ELSE IF totalScore > bestScore THEN take
             ELSE IF totalScore = bestScore THEN take \cup keep
             ELSE keep

\* The scoring loop from track number i on, with the running best so far: every
\* result the draws of Math.random() < 0.1 on ties can give.
RECURSIVE ScoreLoop(_, _, _, _, _, _, _)
ScoreLoop(catalog, i, recent, voteRows, likedTracks, bestTrack, bestScore) ==
    IF i > Len(catalog) THEN {[bestTrack |-> bestTrack, bestScore |-> bestScore]}
    ELSE LET track == catalog[i]
             totalScore == TotalScore(track, voteRows, likedTracks)
             keep == ScoreLoop(catalog, i + 1, recent, voteRows, likedTracks,
                               bestTrack, bestScore)
             take == ScoreLoop(catalog, i + 1, recent, voteRows, likedTracks,
                               track, totalScore)
         IN  IF track.track_id \in Elems(recent) THEN keep
             ELSE IF totalScore > bestScore THEN take
             ELSE IF totalScore = bestScore THEN take \cup keep
             ELSE keep

\* tracks.filter(t => !recentTracks.includes(t.track_id))
AvailableTracks(catalog, recent) ==
    SelectSeq(catalog, LAMBDA t : t.track_id \notin Elems(recent))

\* Step 5: the random pick among the available tracks; index 0 of an empty array
\* is undefined
RandomPick(catalog, recent) ==
    LET availableTracks == AvailableTracks(catalog, recent)
    IN  IF availableTracks = <<>> THEN {UndefinedTrack}
        ELSE Elems(availableTracks)

\* a Step 5 that falls back only when no candidate was found: `if (!bestTrack)`
PicksNullOnly(catalog, recent, voteRows, likedTracks) ==
    UNION { IF r.bestTrack = NullTrack
            THEN {[track |-> t, path |-> "random", score |-> r.bestScore]
                    : t \in RandomPick(catalog, recent)}
            ELSE {[track |-> r.bestTrack, path |-> "weighted", score |-> r.bestScore]}
          : r \in ScoreLoop(catalog, 1, recent, voteRows, likedTracks,
                            NullTrack, InitialBestScore) }

\* Steps 4 and 5: every value bestTrack can have at server.js:278, with the path
\* that chose it
Picks(catalog, recent, voteRows, likedTracks) ==
    UNION { IF r.bestTrack = NullTrack \/ r.bestScore = 0
            THEN {[track |-> t, path |-> "random", score |-> r.bestScore]
                    : t \in RandomPick(catalog, recent)}
            ELSE {[track |-> r.bestTrack, path |-> "weighted", score |-> r.bestScore]}
          : r \in ScoreLoop(catalog, 1, recent, voteRows, likedTracks,
                            NullTrack, InitialBestScore) }

\* a slice that keeps the first n entries: slice(0, 5)
SliceFirst(array, n) ==
    IF Len(array) <= n THEN array ELSE SubSeq(array, 1, n)

\* recentTracks.slice(-5)
SliceLast(array, n) ==
    IF Len(array) <= n THEN array ELSE SubSeq(array, Len(array) - n + 1, Len(array))

----------------------------------------------------------------------------
(* JS Maps, bags, JSON *)

EmptyMap == [k \in {} |-> 0]
MapHas(m, k) == k \in DOMAIN m
MapSet(m, k, v) == [x \in DOMAIN m \cup {k} |-> IF x = k THEN v ELSE m[x]]
MapDelete(m, k) == [x \in DOMAIN m \ {k} |-> m[x]]

BagAdd(b, x) == b (+) SetToBag({x})
BagRemove(b, x) == b (-) SetToBag({x})

\* the value of `async function pickNextTrack` at its caller: a pending promise
Promise(name) == [promise |-> name]

\* JSON.stringify as response.json applies it: the enumerable own properties
\* of the value; a Promise has none
JsonStringify(value) ==
    IF "promise" \in DOMAIN value THEN EmptyMap ELSE value

Response(op, partyCode, status, body) ==
    [op |-> op, party |-> partyCode, status |-> status, body |-> body]

NoResponse == Response("none", "none", 0, EmptyMap)

----------------------------------------------------------------------------
(* Arrays by reference.  A JS array is shared by everything that refers to   *)
(* it: trackHistory (stored) and the recentTracks of running calls (holders). *)

Array(items, stored, holders) ==
    [items |-> items, stored |-> stored, holders |-> holders]

\* an array nothing refers to is garbage
Live(a) == a.stored \/ a.holders # EmptyBag

\* trackHistory: Map partyCode -> array (server.js:12), by content
trackHistory ==
    [p \in {q \in DOMAIN arrays : \E a \in BagToSet(arrays[q]) : a.stored} |->
        (CHOOSE a \in BagToSet(arrays[p]) : a.stored).items]

\* the running calls of pickNextTrack of a party
Calls(partyCode) ==
    UNION {{[array |-> a, call |-> c] : c \in BagToSet(a.holders)} :
            a \in BagToSet(arrays[partyCode])}

NumCalls(partyCode) ==
    LET bag == arrays[partyCode]
    IN  SumOver(DOMAIN bag, [a \in DOMAIN bag |-> bag[a] * BagCardinality(a.holders)])

\* the chains of a party: its running selections and its armed timers
Chains(partyCode) == NumCalls(partyCode) + BagCardinality(timers[partyCode])

\* the bag of arrays with `old` replaced by `new`, garbage dropped
Replace(bag, old, new) ==
    IF Live(new) THEN BagAdd(BagRemove(bag, old), new) ELSE BagRemove(bag, old)

\* trackHistory.set(partyCode, array): no other array of the party is stored
Unstore(bag) ==
    LET off(a) == [a EXCEPT !.stored = FALSE]
        kept   == {a \in BagToSet(bag) : Live(off(a))}
        images == {off(a) : a \in kept}
    IN  [x \in images |->
            SumOver({b \in kept : off(b) = x}, [b \in kept |-> bag[b]])]

----------------------------------------------------------------------------
(* The selection: pickNextTrack (server.js:196-303) and the timer of play *)

\* play(partyCode, trackId, duration, startedAt, callback) of ./player.js:
\* arms a timer that calls back when the track's duration has passed
play(partyCode, trackId, duration, startedAt) ==
    timers' = [timers EXCEPT ![partyCode] =
                  BagAdd(@, [track_id |-> trackId, startedAt |-> startedAt])]

\* pickNextTrack up to its first await (server.js:196-201): read the history
\* (`|| []`: a new array when the party has none) and send the first query
pickNextTrackStart(partyCode, origin) ==
    LET call == [pc |-> "query1", origin |-> origin, voteRows |-> {}]
        bag  == arrays[partyCode]
    IN  IF MapHas(trackHistory, partyCode)
        THEN LET a == CHOOSE x \in BagToSet(bag) : x.stored
             IN  arrays' = [arrays EXCEPT ![partyCode] =
                    Replace(bag, a, [a EXCEPT !.holders = BagAdd(@, call)])]
        ELSE arrays' = [arrays EXCEPT ![partyCode] =
                    BagAdd(bag, Array(<<>>, FALSE, SetToBag({call})))]

\* the promise of pickNextTrack is rejected, and no caller awaits or catches
\* it: Node ends the process (--unhandled-rejections=throw, the default), and
\* all the state in its memory is gone, or only warns
\* (--unhandled-rejections=warn), and the call is over
UnhandledRejection(partyCode, a, call) ==
    \/ /\ crashed' = TRUE
       /\ arrays' = [p \in Parties |-> EmptyBag]
       /\ timers' = [p \in Parties |-> EmptyBag]
       /\ currentTracks' = EmptyMap
       /\ partyMembers' = EmptyMap
    \/ /\ arrays' = [arrays EXCEPT ![partyCode] =
               Replace(@, a, [a EXCEPT !.holders = BagRemove(@, call)])]
       /\ UNCHANGED <<crashed, timers, currentTracks, partyMembers>>

\* the first query is answered (server.js:201-209); the second is sent
query1Done(partyCode, a, call) ==
    /\ ~crashed
    /\ call.pc = "query1"
    /\ arrays' = [arrays EXCEPT ![partyCode] =
            Replace(@, a, [a EXCEPT !.holders =
                BagAdd(BagRemove(@, call),
                       [call EXCEPT !.pc = "query2",
                                    !.voteRows = VoteQuery(votes, partyCode)])])]
    /\ UNCHANGED <<tracks, currentTracks, partyMembers, votes, timers, writes, now,
                   crashed, lastResp, firstBody>>

\* a query of the selection is rejected by the store (server.js:201, 212)
queryFails(partyCode, a, call) ==
    /\ ~crashed
    /\ UnhandledRejection(partyCode, a, call)
    /\ UNCHANGED <<tracks, votes, writes, now, lastResp, firstBody>>

\* a Step 6 that puts the track at the front of recentTracks: unshift
RememberUnshift(bag, a, call, trackId) ==
    LET pushed == <<trackId>> \o a.items
        others == BagRemove(a.holders, call)
        rest   == Unstore(BagRemove(bag, a))
    IN  IF Len(pushed) > HistoryLimit
        THEN BagAdd(IF others = EmptyBag THEN rest
                    ELSE BagAdd(rest, Array(pushed, FALSE, others)),
                    Array(SliceLast(pushed, HistoryLimit), TRUE, EmptyBag))
        ELSE BagAdd(rest, Array(pushed, TRUE, others))

\* Step 6 (server.js:280-285): push the track to recentTracks, which every
\* holder of the array sees; keep the last five in a new array when there are
\* more; store the array in trackHistory
Remember(bag, a, call, trackId) ==
    LET pushed == Append(a.items, trackId)
        others == BagRemove(a.holders, call)
        rest   == Unstore(BagRemove(bag, a))
    IN  IF Len(pushed) > HistoryLimit
        THEN BagAdd(IF others = EmptyBag THEN rest
                    ELSE BagAdd(rest, Array(pushed, FALSE, others)),
                    Array(SliceLast(pushed, HistoryLimit), TRUE, EmptyBag))
        ELSE BagAdd(rest, Array(pushed, TRUE, others))

\* Steps 6 to 8 (server.js:280-302): remember the track, stamp it, store it as
\* the current track and start playing
Commit(partyCode, a, call, bestTrack) ==
    LET startedAt == now
        trackWithTimestamp ==
            [track_id |-> bestTrack.track_id, artist |-> bestTrack.artist,
             duration |-> bestTrack.duration, startedAt |-> startedAt]
    IN  /\ arrays' = [arrays EXCEPT ![partyCode] =
                         Remember(@, a, call, bestTrack.track_id)]
        /\ currentTracks' = MapSet(currentTracks, partyCode, trackWithTimestamp)
        /\ play(partyCode, bestTrack.track_id, bestTrack.duration, startedAt)
        /\ UNCHANGED <<crashed, partyMembers>>

\* the second query is answered (server.js:212-220) and the call runs to its
\* end: Steps 4 to 8, or the TypeError of server.js:278 on an undefined track
query2Done(partyCode, a, call) ==
    /\ ~crashed
    /\ call.pc = "query2"
    /\ LET likedTracks == LikedTracks(tracks, LikedQuery(votes, partyCode))
       IN  \E pick \in Picks(tracks, a.items, call.voteRows, likedTracks) :
              IF pick.track = UndefinedTrack
              THEN UnhandledRejection(partyCode, a, call)
              ELSE Commit(partyCode, a, call, pick.track)
    /\ UNCHANGED <<tracks, votes, writes, now, lastResp, firstBody>>

\* the callback handed to play (server.js:297-300), called when the timer fires
trackFinished(partyCode, timer) ==
    /\ ~crashed
    /\ timers' = [timers EXCEPT ![partyCode] = BagRemove(@, timer)]
    /\ currentTracks' = MapDelete(currentTracks, partyCode)
    /\ pickNextTrackStart(partyCode, "timer")
    /\ firstBody' = MapDelete(firstBody, partyCode)
    /\ UNCHANGED <<tracks, partyMembers, votes, writes, now, crashed, lastResp>>

----------------------------------------------------------------------------
(* Request handlers *)

\* GET /api/party/:partyCode/currentTrack (server.js:51-61)
getCurrentTrack(partyCode) ==
    /\ ~crashed
    /\ IF MapHas(currentTracks, partyCode)
       THEN /\ lastResp' = Response("getCurrentTrack", partyCode, 200,
                                    JsonStringify(currentTracks[partyCode]))
            /\ UNCHANGED arrays
       ELSE /\ Chains(partyCode) < MaxChains
            /\ pickNextTrackStart(partyCode, "request")
            /\ lastResp' = Response("getCurrentTrack", partyCode, 200,
                                    JsonStringify(Promise("pickNextTrack")))
    /\ firstBody' = IF MapHas(firstBody, partyCode) THEN firstBody
                    ELSE MapSet(firstBody, partyCode, lastResp'.body)
    /\ UNCHANGED <<tracks, currentTracks, partyMembers, votes, timers, writes, now,
                   crashed>>

\* `!sessionId`
Falsy(x) == x \in {"", "undefined"}

VoteInputs == {"up", "down", "sideways"}
SessionInputs == Sessions \cup {"", "undefined"}

\* an upsert whose conflict target leaves out the session:
\* on conflict (party_code, track_id)
UpsertPerTrack(table, row) ==
    {r \in table : ~(/\ r.party_code = row.party_code
                     /\ r.track_id = row.track_id)} \cup {row}

\* insert ... on conflict (party_code, track_id, session_id) do update set vote_type
Upsert(table, row) ==
    {r \in table : ~(/\ r.party_code = row.party_code
                     /\ r.track_id = row.track_id
                     /\ r.session_id = row.session_id)} \cup {row}

\* a recordVote that validates the body before it looks for the current track
recordVoteValidatesFirst(partyCode, vote, sessionId) ==
    /\ ~crashed
    /\ IF (vote # "up" /\ vote # "down") \/ Falsy(sessionId)
       THEN /\ lastResp' = Response("recordVote", partyCode, 400,
                                    [error |-> "Vote must be up or down"])
            /\ UNCHANGED writes
       ELSE IF ~MapHas(currentTracks, partyCode)
       THEN /\ lastResp' = Response("recordVote", partyCode, 404,
                                    [error |-> "No track playing"])
            /\ UNCHANGED writes
       ELSE /\ Cardinality(writes) < MaxWrites
            /\ writes' = writes \cup
                 {[party_code |-> partyCode,
                   track_id |-> currentTracks[partyCode].track_id,
                   session_id |-> sessionId, vote_type |-> vote]}
            /\ UNCHANGED lastResp
    /\ UNCHANGED <<tracks, currentTracks, arrays, partyMembers, votes, timers, now,
                   crashed, firstBody>>

\* POST /api/party/:partyCode/vote (server.js:115-139): up to sending the upsert
recordVote(partyCode, vote, sessionId) ==
    /\ ~crashed
    /\ IF ~MapHas(currentTracks, partyCode)
       THEN /\ lastResp' = Response("recordVote", partyCode, 404,
                                    [error |-> "No track playing"])
            /\ UNCHANGED writes
       ELSE IF vote # "up" /\ vote # "down"
       THEN /\ lastResp' = Response("recordVote", partyCode, 400,
                                    [error |-> "Vote must be up or down"])
            /\ UNCHANGED writes
       ELSE IF Falsy(sessionId)
       THEN /\ lastResp' = Response("recordVote", partyCode, 400,
                                    [error |-> "Session ID required"])
            /\ UNCHANGED writes
       ELSE /\ Cardinality(writes) < MaxWrites
            /\ writes' = writes \cup
                 {[party_code |-> partyCode,
                   track_id |-> currentTracks[partyCode].track_id,
                   session_id |-> sessionId, vote_type |-> vote]}
            /\ UNCHANGED lastResp
    /\ UNCHANGED <<tracks, currentTracks, arrays, partyMembers, votes, timers, now,
                   crashed, firstBody>>

\* the upsert succeeded (server.js:140-142)
voteStored(row) ==
    /\ ~crashed
    /\ row \in writes
    /\ votes' = Upsert(votes, row)
    /\ writes' = writes \ {row}
    /\ lastResp' = Response("recordVote", row.party_code, 200, [success |-> TRUE])
    /\ UNCHANGED <<tracks, currentTracks, arrays, partyMembers, timers, now,
                   crashed, firstBody>>

\* the upsert failed (server.js:143-146)
voteFails(row) ==
    /\ ~crashed
    /\ row \in writes
    /\ writes' = writes \ {row}
    /\ lastResp' = Response("recordVote", row.party_code, 500,
                            [error |-> "Failed to store vote"])
    /\ UNCHANGED <<tracks, currentTracks, arrays, partyMembers, votes, timers, now,
                   crashed, firstBody>>

\* time passes
Tick ==
    /\ ~crashed
    /\ now < MaxTime
    /\ now' = now + 1
    /\ UNCHANGED <<tracks, currentTracks, arrays, partyMembers, votes, timers,
                   writes, crashed, lastResp, firstBody>>

----------------------------------------------------------------------------
(* Specifications *)

InitWith(catalog, table) ==
    /\ tracks = catalog
    /\ currentTracks = EmptyMap
    /\ arrays = [p \in Parties |-> EmptyBag]
    /\ partyMembers = EmptyMap
    /\ votes = table
    /\ timers = [p \in Parties |-> EmptyBag]
    /\ writes = {}
    /\ now = 0
    /\ crashed = FALSE
    /\ lastResp = NoResponse
    /\ firstBody = EmptyMap

\* a row of the votes table
Vote(partyCode, trackId, sessionId, voteType) ==
    [party_code |-> partyCode, track_id |-> trackId, session_id |-> sessionId,
     vote_type |-> voteType]

\* votes left by an earlier run of the server, under which the six tracks of
\* Catalog6 score 5, 11, 8, 0, 9 and -1
EarlierVotes ==
    {Vote("p1", 2001, "s1", "up"), Vote("p1", 2002, "s1", "up"),
     Vote("p1", 1002, "s1", "up"), Vote("p1", 7001, "s1", "down")}

\* a request that finds no current track
getCurrentTrackIdle(partyCode) ==
    /\ ~MapHas(currentTracks, partyCode)
    /\ getCurrentTrack(partyCode)

\* a request of a client that does not ask again while its party's first
\* selection is pending
getCurrentTrackPatient(partyCode) ==
    /\ MapHas(currentTracks, partyCode) \/ Chains(partyCode) = 0
    /\ getCurrentTrack(partyCode)

Party1 == {"p1"}

(* Spec: one party, the three-track catalog, requests at any time, store
   failures, the clock. *)
Init == InitWith(Catalog3, {})

Next ==
    \/ \E p \in Party1 : getCurrentTrack(p)
    \/ \E p \in Party1 : \E x \in Calls(p) : query1Done(p, x.array, x.call)
    \/ \E p \in Party1 : \E x \in Calls(p) : query2Done(p, x.array, x.call)
    \/ \E p \in Party1 : \E x \in Calls(p) : queryFails(p, x.array, x.call)
    \/ \E p \in Party1 : \E t \in BagToSet(timers[p]) : trackFinished(p, t)
    \/ Tick

Spec == Init /\ [][Next]_vars

(* SpecVotes: one party whose clients are patient, with every vote request. *)
NextVotes ==
    \/ \E p \in Party1 : getCurrentTrackPatient(p)
    \/ \E p \in Party1 : \E x \in Calls(p) : query1Done(p, x.array, x.call)
    \/ \E p \in Party1 : \E x \in Calls(p) : query2Done(p, x.array, x.call)
    \/ \E p \in Party1 : \E t \in BagToSet(timers[p]) : trackFinished(p, t)
    \/ \E p \in Party1, v \in VoteInputs, s \in SessionInputs : recordVote(p, v, s)
    \/ \E w \in writes : voteStored(w)
    \/ \E w \in writes : voteFails(w)

SpecVotes == Init /\ [][NextVotes]_vars

(* SpecScenario: one party, the three-track catalog with the one upvote of
   the scenario of the specification, section 8, requests at any time. *)
InitScenario == InitWith(Catalog3, {Vote("p1", 1001, "s1", "up")})

NextScenario ==
    \/ \E p \in Party1 : getCurrentTrack(p)
    \/ \E p \in Party1 : \E x \in Calls(p) : query1Done(p, x.array, x.call)
    \/ \E p \in Party1 : \E x \in Calls(p) : query2Done(p, x.array, x.call)
    \/ \E p \in Party1 : \E t \in BagToSet(timers[p]) : trackFinished(p, t)

SpecScenario == InitScenario /\ [][NextScenario]_vars

(* SpecHistory: one party, the six-track catalog, votes of an earlier run,
   requests whenever no track is current. *)
InitHistory == InitWith(Catalog6, EarlierVotes)

NextHistory ==
    \/ \E p \in Party1 : getCurrentTrackIdle(p)
    \/ \E p \in Party1 : \E x \in Calls(p) : query1Done(p, x.array, x.call)
    \/ \E p \in Party1 : \E x \in Calls(p) : query2Done(p, x.array, x.call)
    \/ \E p \in Party1 : \E t \in BagToSet(timers[p]) : trackFinished(p, t)

SpecHistory == InitHistory /\ [][NextHistory]_vars

(* SpecLive: SpecHistory with the scheduling Node gives: an armed timer fires
   and a query sent to the store is answered. *)
SpecLive ==
    /\ SpecHistory
    /\ \A p \in Party1 :
        /\ WF_vars(\E x \in Calls(p) : query1Done(p, x.array, x.call))
        /\ WF_vars(\E x \in Calls(p) : query2Done(p, x.array, x.call))
        /\ WF_vars(\E t \in BagToSet(timers[p]) : trackFinished(p, t))

(* SpecTwo: two parties with patient clients, store failures. *)
NextTwo ==
    \/ \E p \in Parties : getCurrentTrackPatient(p)
    \/ \E p \in Parties : \E x \in Calls(p) : query1Done(p, x.array, x.call)
    \/ \E p \in Parties : \E x \in Calls(p) : query2Done(p, x.array, x.call)
    \/ \E p \in Parties : \E x \in Calls(p) : queryFails(p, x.array, x.call)
    \/ \E p \in Parties : \E t \in BagToSet(timers[p]) : trackFinished(p, t)

SpecTwo == Init /\ [][NextTwo]_vars

----------------------------------------------------------------------------
(* Steps of the selection, as the claims speak of them *)

\* the call commits a track: Steps 6 to 8 ran
Commits(partyCode, a, call) ==
    /\ query2Done(partyCode, a, call)
    /\ BagCardinality(timers'[partyCode]) = BagCardinality(timers[partyCode]) + 1

\* the call ends in the TypeError of server.js:278
Throws(partyCode, a, call) ==
    /\ query2Done(partyCode, a, call)
    /\ BagCardinality(timers'[partyCode]) # BagCardinality(timers[partyCode]) + 1

\* the GET request starts a selection
StartsSelection(partyCode) ==
    /\ getCurrentTrack(partyCode)
    /\ arrays' # arrays

TimerCallRunning(partyCode) ==
    \E x \in Calls(partyCode) : x.call.origin = "timer"

----------------------------------------------------------------------------
(* Claims *)

\* C1: at most one selection is in flight per party: at most one call of
\* pickNextTrack of a party is between its read of the history and its commit.
C1_OneSelectionInFlight ==
    \A p \in Parties : NumCalls(p) <= 1

\* C2: a GET currentTrack request that arrives while the re-selection started
\* by the completion-timer callback is awaiting the store does not start a
\* selection of its own.
C2_NoDoubleSelectAtBoundary ==
    [][\A p \in Parties : TimerCallRunning(p) => ~StartsSelection(p)]_vars

\* C3: every body answered to GET currentTrack for a party equals the first
\* body answered for it since the party's last timer fire (same track, same
\* start timestamp), the request that starts the selection included.
C3_GetCurrentTrackIdempotent ==
    \A p \in Parties :
        (lastResp.op = "getCurrentTrack" /\ lastResp.party = p /\ MapHas(firstBody, p))
            => lastResp.body = firstBody[p]

\* C4: the history stored for a party never holds more than 5 track ids,
\* whatever the interleaving of the party's selections; and when a call
\* appends a 6th id to its array of 5, what it stores is that array without
\* its oldest id, followed by the new one.
C4_HistoryAtMostFive ==
    /\ [](\A p \in DOMAIN trackHistory : Len(trackHistory[p]) <= 5)
    /\ [][\A p \in Parties : \A x \in Calls(p) :
            (Commits(p, x.array, x.call) /\ Len(x.array.items) = 5)
                => trackHistory'[p] =
                     Append(Tail(x.array.items), currentTracks'[p].track_id)]_vars

\* a sixth track was appended while two chains of the party were live: the
\* history is full and the first track ever played, 2001, has left it
C4_Witness ==
    \E p \in DOMAIN trackHistory :
        /\ Len(trackHistory[p]) = 5
        /\ 2001 \notin Elems(trackHistory[p])
        /\ Chains(p) >= 2

\* C5: a track committed by the weighted path (best score not 0) is not in
\* the party's stored history just before it is appended.
C5_WeightedNotInStoredHistory ==
    [][\A p \in Parties : \A x \in Calls(p) :
        \A pick \in Picks(tracks, x.array.items, x.call.voteRows,
                          LikedTracks(tracks, LikedQuery(votes, p))) :
            (/\ Commits(p, x.array, x.call)
             /\ pick.path = "weighted"
             /\ currentTracks'[p].track_id = pick.track.track_id)
                => (MapHas(trackHistory, p)
                        => pick.track.track_id \notin Elems(trackHistory[p]))]_vars

\* CurrentTrack set with a completion timer armed
Playing(partyCode) ==
    MapHas(currentTracks, partyCode) /\ timers[partyCode] # EmptyBag

\* C6: once a party has been queried with GET currentTrack it is Playing
\* again and again: from every later state a state with a current track and
\* an armed timer is reached.
C6_PlaybackPerpetual ==
    \A p \in Party1 :
        []((lastResp.op = "getCurrentTrack" /\ lastResp.party = p) => <>Playing(p))

\* every track of the catalog is in the array
AllRecent(items) == \A i \in 1..Len(tracks) : tracks[i].track_id \in Elems(items)

\* C7: when every catalog track is in the call's recent history, the call
\* does not go on with an undefined track: it commits a track of the catalog.
\* (The code has no handler on this path; its only other outcome is the
\* uncaught TypeError.)
C7_EmptyPoolHandled ==
    [][\A p \in Parties : \A x \in Calls(p) :
        (query2Done(p, x.array, x.call) /\ AllRecent(x.array.items))
            => /\ Commits(p, x.array, x.call)
               /\ currentTracks'[p].track_id \in {tracks[i].track_id : i \in 1..Len(tracks)}]_vars

\* C8: when a store query fails during a selection that a GET currentTrack
\* request started, that request is answered with an error.
C8_StoreFailureSurfaced ==
    [][\A p \in Parties : \A x \in Calls(p) :
        (queryFails(p, x.array, x.call) /\ x.call.origin = "request")
            => /\ lastResp'.op = "getCurrentTrack"
               /\ lastResp'.party = p
               /\ lastResp'.status >= 400]_vars

\* C9: when the re-selection started by a party's timer callback fails while
\* another party is playing, the process does not crash and the current
\* track, the history and the timers of every other party are untouched.
C9_FailureIsolated ==
    [][\A p \in Parties : \A x \in Calls(p) :
        (/\ queryFails(p, x.array, x.call) \/ Throws(p, x.array, x.call)
         /\ x.call.origin = "timer"
         /\ \E q \in Parties \ {p} : Playing(q))
            => /\ ~crashed'
               /\ \A q \in Parties \ {p} :
                    /\ arrays'[q] = arrays[q]
                    /\ timers'[q] = timers[q]
                    /\ MapHas(currentTracks, q) =>
                         (MapHas(currentTracks', q)
                            /\ currentTracks'[q] = currentTracks[q])]_vars

\* C10: POST vote answers 404 when the party has no current track, whatever
\* the body; otherwise 400 when the vote is neither up nor down or the
\* session id is missing; otherwise it sends the upsert for the party, the
\* track current at the request and the session, and the answer is 200 once
\* the row is stored, or 500 when the store fails.  A 404, a 400 and a 500
\* leave the votes as they were.
C10_VoteOutcome ==
    [][/\ \A p \in Party1, v \in VoteInputs, s \in SessionInputs :
            recordVote(p, v, s) =>
                IF ~MapHas(currentTracks, p)
                THEN /\ lastResp' = Response("recordVote", p, 404, lastResp'.body)
                     /\ votes' = votes /\ writes' = writes
                ELSE IF v \notin {"up", "down"} \/ s \notin Sessions
                THEN /\ lastResp' = Response("recordVote", p, 400, lastResp'.body)
                     /\ votes' = votes /\ writes' = writes
                ELSE /\ writes' = writes \cup
                            {Vote(p, currentTracks[p].track_id, s, v)}
                     /\ votes' = votes /\ lastResp' = lastResp
       /\ \A w \in writes :
            /\ voteStored(w) =>
                /\ lastResp' = Response("recordVote", w.party_code, 200, lastResp'.body)
                /\ w \in votes'
                /\ \A r \in votes' :
                     (r.party_code = w.party_code /\ r.track_id = w.track_id
                        /\ r.session_id = w.session_id) => r = w
                /\ \A r \in votes :
                     (r.party_code # w.party_code \/ r.track_id # w.track_id
                        \/ r.session_id # w.session_id) => r \in votes'
            /\ voteFails(w) =>
                /\ lastResp' = Response("recordVote", w.party_code, 500, lastResp'.body)
                /\ votes' = votes]_vars

\* a vote was stored and answered with 200
C10_Witness ==
    /\ lastResp.op = "recordVote"
    /\ lastResp.status = 200
    /\ \E r \in votes : r.party_code = lastResp.party /\ r.vote_type = "down"

----------------------------------------------------------------------------
(* SpecUpsert: one party on its first track, two sessions that vote up and
   down on it, upserts that succeed or fail. *)
Sessions2 == {"s1", "s2"}

NextUpsert ==
    \/ \E p \in Party1 : getCurrentTrackPatient(p)
    \/ \E p \in Party1 : \E x \in Calls(p) : query1Done(p, x.array, x.call)
    \/ \E p \in Party1 : \E x \in Calls(p) : query2Done(p, x.array, x.call)
    \/ \E p \in Party1, v \in {"up", "down"}, s \in Sessions2 : recordVote(p, v, s)
    \/ \E w \in writes : voteStored(w)
    \/ \E w \in writes : voteFails(w)

SpecUpsert == Init /\ [][NextUpsert]_vars

\* the rows of a table for the key of a row
SameKey(table, row) ==
    {r \in table : /\ r.party_code = row.party_code
                   /\ r.track_id = row.track_id
                   /\ r.session_id = row.session_id}

\* the sessions with a vote of a type on a track of a party
Voters(partyCode, trackId, voteType) ==
    {r.session_id : r \in {x \in votes : /\ x.party_code = partyCode
                                          /\ x.track_id = trackId
                                          /\ x.vote_type = voteType}}

\* C11: the votes table holds at most one row per (party_code, track_id,
\* session_id); a stored vote replaces the row of its key, so the row has the
\* type of the vote stored last, and changes no other row; no other step
\* changes the table; the net score of a track is the number of sessions
\* whose vote is up minus the number of sessions whose vote is down.
C11_LastWriteWins ==
    /\ [](\A r \in votes : SameKey(votes, r) = {r})
    /\ [](\A p \in Parties : \A q \in VoteQuery(votes, p) :
            q.score = Cardinality(Voters(p, q.track_id, "up"))
                        - Cardinality(Voters(p, q.track_id, "down")))
    /\ [][IF \E w \in writes : voteStored(w)
          THEN \A w \in writes : voteStored(w) =>
                  /\ SameKey(votes', w) = {w}
                  /\ votes' \ {w} = votes \ SameKey(votes, w)
          ELSE votes' = votes]_vars

\* a session's down vote on a track is stored while its up vote on the same
\* track, accepted after it, is on its way to the store, and the other
\* session has a vote on the track too
C11_Witness ==
    \E r \in votes : \E w \in writes :
        /\ SameKey({w}, r) = {w}
        /\ r.vote_type = "down" /\ w.vote_type = "up"
        /\ \E o \in votes : o.track_id = r.track_id /\ o.session_id # r.session_id

----------------------------------------------------------------------------
(* Member presence: recordHeartbeat and getMemberCount *)

\* `const timeout = 15000` (server.js:180)
Timeout == 15000

\* POST /api/party/:partyCode/heartbeat (server.js:149-168)
recordHeartbeat(partyCode, sessionId) ==
    /\ ~crashed
    /\ IF Falsy(sessionId)
       THEN /\ lastResp' = Response("recordHeartbeat", partyCode, 400,
                                    [error |-> "Session ID required"])
            /\ UNCHANGED partyMembers
       ELSE LET members == IF MapHas(partyMembers, partyCode)
                           THEN partyMembers[partyCode] ELSE EmptyMap
            IN  /\ partyMembers' = MapSet(partyMembers, partyCode,
                                          MapSet(members, sessionId, now))
                /\ lastResp' = Response("recordHeartbeat", partyCode, 200,
                                        [success |-> TRUE])
    /\ UNCHANGED <<tracks, currentTracks, arrays, votes, timers, writes, now,
                   crashed, firstBody>>

\* a loop that keeps a member whose age is exactly the timeout
RECURSIVE MemberLoopInclusive(_, _, _, _)
MemberLoopInclusive(entries, members, time, activeCount) ==
    IF entries = {} THEN [count |-> activeCount, members |-> members]
    ELSE LET sessionId == CHOOSE e \in entries : TRUE
             lastSeen  == members[sessionId]
         IN  IF time - lastSeen <= Timeout
             THEN MemberLoopInclusive(entries \ {sessionId}, members, time,
                                      activeCount + 1)
             ELSE MemberLoopInclusive(entries \ {sessionId},
                                      MapDelete(members, sessionId), time, activeCount)

\* the loop over members.entries() (server.js:183-189): count the entry or
\* delete it from the map
RECURSIVE MemberLoop(_, _, _, _)
MemberLoop(entries, members, time, activeCount) ==
    IF entries = {} THEN [count |-> activeCount, members |-> members]
    ELSE LET sessionId == CHOOSE e \in entries : TRUE
             lastSeen  == members[sessionId]
         IN  IF time - lastSeen < Timeout
             THEN MemberLoop(entries \ {sessionId}, members, time, activeCount + 1)
             ELSE MemberLoop(entries \ {sessionId}, MapDelete(members, sessionId),
                             time, activeCount)

\* GET /api/party/:partyCode/members (server.js:170-192)
getMemberCount(partyCode) ==
    /\ ~crashed
    /\ IF ~MapHas(partyMembers, partyCode)
       THEN /\ lastResp' = Response("getMemberCount", partyCode, 200, [count |-> 0])
            /\ UNCHANGED partyMembers
       ELSE LET members == partyMembers[partyCode]
                result  == MemberLoop(DOMAIN members, members, now, 0)
            IN  /\ partyMembers' = MapSet(partyMembers, partyCode, result.members)
                /\ lastResp' = Response("getMemberCount", partyCode, 200,
                                        [count |-> result.count])
    /\ UNCHANGED <<tracks, currentTracks, arrays, votes, timers, writes, now,
                   crashed, firstBody>>

\* the clock moves on by d ms
Wait(d) ==
    /\ ~crashed
    /\ now + d <= (MaxTime + 1) * Timeout
    /\ now' = now + d
    /\ UNCHANGED <<tracks, currentTracks, arrays, partyMembers, votes, timers,
                   writes, crashed, lastResp, firstBody>>

Delays == {Timeout - 1, Timeout, 16000}

(* SpecMembers: two parties, two sessions that send heartbeats, member
   queries, the clock moving by just under, exactly and over the timeout. *)
NextMembers ==
    \/ \E p \in Parties, s \in Sessions2 \cup {"undefined"} : recordHeartbeat(p, s)
    \/ \E p \in Parties : getMemberCount(p)
    \/ \E d \in Delays : Wait(d)

SpecMembers == Init /\ [][NextMembers]_vars

\* the sessions of a map of members seen less than the timeout ago
Active(members, time) == {s \in DOMAIN members : time - members[s] < Timeout}

\* C12: GET members answers the number of sessions of the party whose last
\* heartbeat is less than 15000 ms old and deletes every other entry of the
\* party (one aged exactly 15000 ms too), leaving the counted entries as they
\* were; with heartbeats of two sessions at 0 and the query at 16000 the
\* count is 0 and the party's map is empty afterwards.
C12_MemberCountAndPurge ==
    [][\A p \in Parties :
        (getMemberCount(p) /\ MapHas(partyMembers, p)) =>
            LET members == partyMembers[p]
                active  == Active(members, now)
            IN  /\ lastResp'.body.count = Cardinality(active)
                /\ partyMembers'[p] = [s \in active |-> members[s]]
                /\ (now = 16000 /\ members = [s \in Sessions2 |-> 0])
                      => (lastResp'.body.count = 0 /\ partyMembers'[p] = EmptyMap)]_vars

\* a query at 15000 has found every entry of the party aged exactly the
\* timeout, has deleted them all and has answered 0
C12_Witness ==
    \E p \in Parties :
        /\ lastResp = Response("getMemberCount", p, 200, [count |-> 0])
        /\ MapHas(partyMembers, p)
        /\ partyMembers[p] = EmptyMap
        /\ now = Timeout

----------------------------------------------------------------------------
(* SpecBonus: the first selection of one party over the six-track catalog,
   for every table of votes in which one session has voted up, down or not
   at all on each track. *)
VoteTables ==
    {{Vote("p1", Catalog6[i].track_id, "s1", f[i]) :
        i \in {j \in 1..Len(Catalog6) : f[j] # "none"}} :
     f \in [1..Len(Catalog6) -> {"none", "up", "down"}]}

InitBonus == \E table \in VoteTables : InitWith(Catalog6, table)

NextBonus ==
    \/ \E p \in Party1 : getCurrentTrackPatient(p)
    \/ \E p \in Party1 : \E x \in Calls(p) : query1Done(p, x.array, x.call)
    \/ \E p \in Party1 : \E x \in Calls(p) : query2Done(p, x.array, x.call)

SpecBonus == InitBonus /\ [][NextBonus]_vars

\* the liked tracks of a party as the selection computes them
Liked(partyCode) == LikedTracks(tracks, LikedQuery(votes, partyCode))

\* the number of liked tracks with the category, with the artist, of a track
SameCategory(track, likedTracks) ==
    Cardinality({j \in 1..Len(likedTracks) :
        getCategory(likedTracks[j].track_id) = getCategory(track.track_id)})
SameArtist(track, likedTracks) ==
    Cardinality({j \in 1..Len(likedTracks) : likedTracks[j].artist = track.artist})

\* C13: for every track of the catalog and the liked tracks of the party, the
\* similarity bonus is 2k + 3m, k the number of liked tracks of the track's
\* category and m the number of liked tracks of its artist, a liked track
\* that matches on both counting in both and the track itself counting when
\* it is liked.
C13_SimilarityBonus ==
    \A p \in Party1 : \A i \in 1..Len(tracks) :
        SimilarityBonus(tracks[i], Liked(p)) =
            2 * SameCategory(tracks[i], Liked(p)) + 3 * SameArtist(tracks[i], Liked(p))

\* a selection has committed where 1001 is liked and so are 2002, of its
\* artist, and 1002, of its category: k = 2, m = 2 and the bonus of 1001 is 10
C13_Witness ==
    /\ MapHas(currentTracks, "p1")
    /\ {t \in {1001, 2002, 1002, 2001} :
            \E j \in 1..Len(Liked("p1")) : Liked("p1")[j].track_id = t}
         = {1001, 2002, 1002}
    /\ SameCategory(tracks[1], Liked("p1")) = 2
    /\ SameArtist(tracks[1], Liked("p1")) = 2
    /\ SimilarityBonus(tracks[1], Liked("p1")) = 10

----------------------------------------------------------------------------
\* the party has no current track and no history, and the call reads none
Fresh(partyCode, a) ==
    /\ ~MapHas(currentTracks, partyCode)
    /\ ~MapHas(trackHistory, partyCode)
    /\ a.items = <<>>

\* the total score of the track with an id, as the call computes it
ScoreOf(trackId, partyCode, call) ==
    LET i == CHOOSE j \in 1..Len(tracks) : tracks[j].track_id = trackId
    IN  TotalScore(tracks[i], call.voteRows, Liked(partyCode))

\* C14, as claimed: in the scenario (catalog 1001 by X, 2001 by Y, 2002 by X,
\* one upvote on 1001) the selection of a fresh party scores 2002 at 3 and
\* 2001 at 0 and commits 2002.
C14_ScenarioCommits2002 ==
    [][\A p \in Party1 : \A x \in Calls(p) :
        (Commits(p, x.array, x.call) /\ Fresh(p, x.array)) =>
            /\ ScoreOf(2002, p, x.call) = 3
            /\ ScoreOf(2001, p, x.call) = 0
            /\ currentTracks'[p].track_id = 2002]_vars

\* C14, amended: in the scenario the selection of a fresh party scores 2002
\* at 3, 2001 at 0 and 1001, liked and so matching itself on category and
\* artist, at 6, and commits 1001.
C14_ScenarioCommits1001 ==
    [][\A p \in Party1 : \A x \in Calls(p) :
        (Commits(p, x.array, x.call) /\ Fresh(p, x.array)) =>
            /\ ScoreOf(2002, p, x.call) = 3
            /\ ScoreOf(2001, p, x.call) = 0
            /\ ScoreOf(1001, p, x.call) = 6
            /\ currentTracks'[p].track_id = 1001]_vars

\* the first selection of the scenario has committed
C14_Witness ==
    /\ votes = {Vote("p1", 1001, "s1", "up")}
    /\ MapHas(currentTracks, "p1") /\ currentTracks["p1"].track_id = 1001
    /\ MapHas(trackHistory, "p1") /\ trackHistory["p1"] = <<1001>>
    /\ NumCalls("p1") = 0

----------------------------------------------------------------------------
(* SpecDown: one party with patient clients over the six-track catalog, for
   every table in which one session has voted down on some of the first
   three tracks. *)
DownTables ==
    {table \in VoteTables :
        \A r \in table : /\ r.vote_type = "down"
                          /\ \E i \in 1..Len(Catalog3) : r.track_id = Catalog3[i].track_id}

InitDown == \E table \in DownTables : InitWith(Catalog6, table)

NextDown ==
    \/ \E p \in Party1 : getCurrentTrackPatient(p)
    \/ \E p \in Party1 : \E x \in Calls(p) : query1Done(p, x.array, x.call)
    \/ \E p \in Party1 : \E x \in Calls(p) : query2Done(p, x.array, x.call)
    \/ \E p \in Party1 : \E t \in BagToSet(timers[p]) : trackFinished(p, t)

SpecDown == InitDown /\ [][NextDown]_vars

\* no track has a net vote score above 0 for the party
NoneLiked(partyCode) == \A q \in VoteQuery(votes, partyCode) : q.score <= 0

\* the net vote score of a track for the party, 0 without votes
NetScore(partyCode, track) ==
    SumOver({r \in votes : r.party_code = partyCode /\ r.track_id = track.track_id},
            [r \in votes |-> VoteValue(r)])

\* the candidates of a call: the catalog tracks not in its recent history
Candidates(a) == Elems(AvailableTracks(tracks, a.items))

\* every way Steps 4 and 5 of the call can end is the random fallback, and
\* the committed track is one of the catalog tracks not in the recent history
RandomPath(partyCode, a, call) ==
    /\ \A pick \in Picks(tracks, a.items, call.voteRows, Liked(partyCode)) :
            pick.path = "random"
    /\ \E t \in Candidates(a) : t.track_id = currentTracks'[partyCode].track_id

\* C15, as claimed: when every net vote score of the party is <= 0, every
\* candidate of a committing selection has total score 0 and the selection
\* takes the random fallback among the tracks not in the recent history.
C15_NoLikesAllZeroRandom ==
    [][\A p \in Party1 : \A x \in Calls(p) :
        (Commits(p, x.array, x.call) /\ NoneLiked(p)) =>
            /\ \A t \in Candidates(x.array) :
                    TotalScore(t, x.call.voteRows, Liked(p)) = 0
            /\ RandomPath(p, x.array, x.call)]_vars

\* C15, amended: when every net vote score of the party is <= 0, there is no
\* liked track, no candidate has a similarity bonus and every candidate's
\* total score is its net vote score; when that is 0 for at least one
\* candidate, the selection takes the random fallback among the tracks not
\* in the recent history.
C15_NoLikesRandomWhenSomeZero ==
    [][\A p \in Party1 : \A x \in Calls(p) :
        (Commits(p, x.array, x.call) /\ NoneLiked(p)) =>
            /\ Liked(p) = <<>>
            /\ \A t \in Candidates(x.array) :
                    /\ SimilarityBonus(t, Liked(p)) = 0
                    /\ TotalScore(t, x.call.voteRows, Liked(p)) = NetScore(p, t)
                    /\ NetScore(p, t) <= 0
            /\ (\E t \in Candidates(x.array) : NetScore(p, t) = 0)
                    => RandomPath(p, x.array, x.call)]_vars

\* the random fallback has committed, as the third track of the party, a
\* track with a negative net score while a track with net score 0 was a
\* candidate
C15_Witness ==
    /\ NoneLiked("p1")
    /\ MapHas(currentTracks, "p1")
    /\ NetScore("p1", currentTracks["p1"]) < 0
    /\ MapHas(trackHistory, "p1") /\ Len(trackHistory["p1"]) = 3
    /\ \E i \in 1..Len(tracks) :
            /\ tracks[i].track_id \notin Elems(SubSeq(trackHistory["p1"], 1, 2))
            /\ NetScore("p1", tracks[i]) = 0

----------------------------------------------------------------------------
\* the value a Map holds for a key, or "none"
MapGet(map, key) == IF MapHas(map, key) THEN <<map[key]>> ELSE <<>>

\* the step is an operation addressed to the party
OperationOf(partyCode) ==
    \/ getCurrentTrack(partyCode)
    \/ \E x \in Calls(partyCode) : \/ query1Done(partyCode, x.array, x.call)
                                    \/ query2Done(partyCode, x.array, x.call)
                                    \/ queryFails(partyCode, x.array, x.call)
    \/ \E t \in BagToSet(timers[partyCode]) : trackFinished(partyCode, t)
    \/ \E v \in VoteInputs, s \in SessionInputs : recordVote(partyCode, v, s)
    \/ \E w \in writes : w.party_code = partyCode /\ (voteStored(w) \/ voteFails(w))
    \/ \E s \in SessionInputs : recordHeartbeat(partyCode, s)
    \/ getMemberCount(partyCode)

\* C16: an operation addressed to a party leaves the current track, the
\* stored history, the members and the votes of every other party as they
\* were.
C16_PartiesIsolated ==
    [][\A a \in Parties : OperationOf(a) =>
        \A b \in Parties \ {a} :
            /\ MapGet(currentTracks', b) = MapGet(currentTracks, b)
            /\ MapGet(trackHistory', b) = MapGet(trackHistory, b)
            /\ MapGet(partyMembers', b) = MapGet(partyMembers, b)
            /\ {r \in votes' : r.party_code = b} = {r \in votes : r.party_code = b}]_vars

----------------------------------------------------------------------------
(* SpecTies: one party with patient clients over the six-track catalog, for
   every table in which one session has voted up on some of 1001 and 1002
   and perhaps down on 7001: candidates tie at the top, and the top is 0
   over a negative candidate once the liked tracks are recent. *)
TieTables ==
    {table \in VoteTables :
        \A r \in table : \/ (r.track_id \in {1001, 1002} /\ r.vote_type = "up")
                          \/ (r.track_id = 7001 /\ r.vote_type = "down")}

InitTies == \E table \in TieTables : InitWith(Catalog6, table)

NextTies ==
    \/ \E p \in Party1 : getCurrentTrackPatient(p)
    \/ \E p \in Party1 : \E x \in Calls(p) : query1Done(p, x.array, x.call)
    \/ \E p \in Party1 : \E x \in Calls(p) : query2Done(p, x.array, x.call)
    \/ \E p \in Party1 : \E t \in BagToSet(timers[p]) : trackFinished(p, t)

SpecTies == InitTies /\ [][NextTies]_vars

\* the total scores of the candidates of a call
CandidateScores(partyCode, a, call) ==
    {TotalScore(t, call.voteRows, Liked(partyCode)) : t \in Candidates(a)}

\* the largest of a non-empty set of numbers
Max(S) == CHOOSE m \in S : \A n \in S : n <= m

\* C17: when a call that ends has a candidate (a catalog track not in its
\* recent history) and the largest total score of its candidates is not 0,
\* every track it can commit, whatever the tie draws, is a candidate with
\* that score, and so is the track it commits; when the largest is 0, the
\* tracks it can commit are all its candidates, those of negative score too.
C17_CommitsMaximum ==
    /\ [](\A p \in Party1 : \A x \in Calls(p) :
            (x.call.pc = "query2" /\ Candidates(x.array) # {}) =>
                LET scores == CandidateScores(p, x.array, x.call)
                    picks  == Picks(tracks, x.array.items, x.call.voteRows, Liked(p))
                IN  IF Max(scores) # 0
                    THEN \A pick \in picks :
                            /\ pick.track \in Candidates(x.array)
                            /\ TotalScore(pick.track, x.call.voteRows, Liked(p))
                                    = Max(scores)
                    ELSE {pick.track : pick \in picks} = Candidates(x.array))
    /\ [][\A p \in Party1 : \A x \in Calls(p) :
            (Commits(p, x.array, x.call) /\ Candidates(x.array) # {}) =>
                LET scores == CandidateScores(p, x.array, x.call)
                    chosen == {t \in Candidates(x.array) :
                                t.track_id = currentTracks'[p].track_id}
                IN  /\ chosen # {}
                    /\ Max(scores) # 0 =>
                          \A t \in chosen :
                            TotalScore(t, x.call.voteRows, Liked(p)) = Max(scores)]_vars

\* the first selection has committed 1002, one of the two candidates tied
\* at the top (1001 and 1002, both liked) and not the one the loop sees first
C17_Witness ==
    /\ \A t \in {1001, 1002} : Vote("p1", t, "s1", "up") \in votes
    /\ MapHas(currentTracks, "p1") /\ currentTracks["p1"].track_id = 1002
    /\ MapHas(trackHistory, "p1")
    /\ trackHistory["p1"] = <<1002>>
    /\ NumCalls("p1") = 0

----------------------------------------------------------------------------
\* the timer was armed by the selection that committed the current track
ArmedForCurrent(partyCode, timer) ==
    /\ MapHas(currentTracks, partyCode)
    /\ currentTracks[partyCode].track_id = timer.track_id
    /\ currentTracks[partyCode].startedAt = timer.startedAt

\* C18: no step leaves a party with more than one armed completion timer,
\* and a timer that fires was armed for the track that is current: its
\* callback deletes no current track that another selection committed.
C18_OneTimerPerParty ==
    [][\A p \in Parties :
        /\ BagCardinality(timers'[p]) <= 1
        /\ \A t \in BagToSet(timers[p]) :
                trackFinished(p, t) => ArmedForCurrent(p, t)]_vars

----------------------------------------------------------------------------
\* the stored history of a party, empty when it has none
StoredHistory(partyCode) ==
    IF MapHas(trackHistory, partyCode) THEN trackHistory[partyCode] ELSE <<>>

\* the last five entries of a sequence, all of them when it has fewer
LastFive(seq) ==
    IF Len(seq) <= 5 THEN seq ELSE SubSeq(seq, Len(seq) - 4, Len(seq))

\* the party's selection commits in this step
SomeCommit(partyCode) ==
    \E x \in Calls(partyCode) : Commits(partyCode, x.array, x.call)

\* C19: the stored history of a party is the last five of the ids of its
\* committed selections, in commit order: every commit turns the stored
\* history into its last five with the committed id appended, also when the
\* committing call read the history before another call wrote it, and no
\* other step of the running server changes it.
C19_NoSelectionLost ==
    [][\A p \in Party1 :
        IF SomeCommit(p)
        THEN trackHistory'[p] =
                LastFive(Append(StoredHistory(p), currentTracks'[p].track_id))
        ELSE crashed' \/ MapGet(trackHistory', p) = MapGet(trackHistory, p)]_vars

\* C20: a party that has a current track has a stored history, and the last
\* entry of the history is the id of the current track.
C20_CurrentIsNewest ==
    \A p \in Parties :
        MapHas(currentTracks, p) =>
            /\ MapHas(trackHistory, p)
            /\ trackHistory[p] # <<>>
            /\ trackHistory[p][Len(trackHistory[p])] = currentTracks[p].track_id

\* a track is current and is the newest of a full history while another
\* selection of the party is still running
C20_Witness ==
    \E p \in Parties :
        /\ MapHas(currentTracks, p)
        /\ Len(StoredHistory(p)) = 5
        /\ StoredHistory(p)[5] = currentTracks[p].track_id
        /\ NumCalls(p) >= 1

----------------------------------------------------------------------------
\* the call fails in this step: a query is rejected or no candidate is left
Fails(partyCode, a, call) ==
    \/ queryFails(partyCode, a, call)
    \/ Throws(partyCode, a, call)

\* C21: a selection that fails changes nothing of its party: the current
\* track, the stored history and the armed timers of the party are after the
\* failure what they were before it.
C21_FailedSelectionChangesNothing ==
    [][\A p \in Party1 : \A x \in Calls(p) :
        Fails(p, x.array, x.call) =>
            /\ MapGet(currentTracks', p) = MapGet(currentTracks, p)
            /\ MapGet(trackHistory', p) = MapGet(trackHistory, p)
            /\ timers'[p] = timers[p]]_vars

====
